---- MODULE Spec2Model ----
(***************************************************************************)
(* Gene Pathway Generator (genepathwaygenerator.py): the Streamlit script  *)
(* that normalizes pasted gene symbols, fetches STRING interactions through *)
(* a memoized function, renders the network through a temporary file and    *)
(* asks a language model for a summary.                                     *)
(*                                                                         *)
(* Text is a sequence of one-character strings; a gene symbol is such a     *)
(* sequence too.  Confidence scores and thresholds are counted in units of  *)
(* 0.05 (the slider step): 14 is 0.7, 18 is 0.9, 20 is 1.0.                 *)
(***************************************************************************)
EXTENDS Integers, Sequences, FiniteSets, TLC

VARIABLES
    now,        \* wall clock, in seconds
    cache,      \* st.cache_data store of get_gene_interactions
    tmpfiles,   \* number of temporary .html files that exist on disk
    run,        \* what the last script run (or direct call) did and showed
    computed    \* history: per key, the last call that ran the body and returned

vars == <<now, cache, tmpfiles, run, computed>>

----------------------------------------------------------------------------
(* Bounds of the model *)

MaxLen == 3          \* longest text typed into the text area
MaxBody == 2         \* most records in a JSON array answered by STRING
MaxTime == 3600      \* the clock stops advancing here
TickStep == 1800     \* seconds per clock step
MaxTmp == 1          \* most leaked temporary files followed

(* Program constants *)

TTL == 3600          \* ttl=3600 of st.cache_data
SliderMin == 0       \* min_value=0.0
DefaultThreshold == 14   \* value=0.7 and the default of score_threshold
OK == 200            \* the only status taken as success

----------------------------------------------------------------------------
(* Text *)

Alphabet == {"a", "A", "b", ",", " ", "\n"}

Whitespace == {" ", "\n", "\t", "\r"}

RECURSIVE TextsUpTo(_)
TextsUpTo(n) ==
    IF n = 0 THEN {<<>>}
    ELSE LET shorter == TextsUpTo(n - 1)
         IN  shorter \cup {Append(t, c) : t \in {s \in shorter : Len(s) = n - 1}, c \in Alphabet}

Texts == TextsUpTo(MaxLen)

Ord(c) ==
    CASE c = "\t" -> 9
      [] c = "\n" -> 10
      [] c = "\r" -> 13
      [] c = " " -> 32
      [] c = "," -> 44
      [] c = "A" -> 65
      [] c = "B" -> 66
      [] c = "C" -> 67
      [] c = "a" -> 97
      [] c = "b" -> 98
      [] c = "c" -> 99

UpperChar(c) ==
    CASE c = "a" -> "A"
      [] c = "b" -> "B"
      [] c = "c" -> "C"
      [] OTHER -> c

\* str.upper()
Upper(s) == [i \in DOMAIN s |-> UpperChar(s[i])]

\* str.strip(): drop leading and trailing whitespace
RECURSIVE LStrip(_)
LStrip(s) == IF s # <<>> /\ Head(s) \in Whitespace THEN LStrip(Tail(s)) ELSE s

RECURSIVE RStrip(_)
RStrip(s) ==
    IF s # <<>> /\ s[Len(s)] \in Whitespace THEN RStrip(SubSeq(s, 1, Len(s) - 1)) ELSE s

Strip(s) == RStrip(LStrip(s))

\* str.replace(",", " ")
ReplaceComma(s) == [i \in DOMAIN s |-> IF s[i] = "," THEN " " ELSE s[i]]

\* str.split() with no argument: the maximal runs of non-whitespace
RECURSIVE SplitFrom(_, _, _)
SplitFrom(s, cur, acc) ==
    IF s = <<>> THEN (IF cur = <<>> THEN acc ELSE Append(acc, cur))
    ELSE IF Head(s) \in Whitespace
         THEN SplitFrom(Tail(s), <<>>, IF cur = <<>> THEN acc ELSE Append(acc, cur))
         ELSE SplitFrom(Tail(s), Append(cur, Head(s)), acc)

Split(s) == SplitFrom(s, <<>>, <<>>)

\* s < t for Python strings: by code point, a proper prefix first
RECURSIVE StrLess(_, _)
StrLess(s, t) ==
    IF t = <<>> THEN FALSE
    ELSE IF s = <<>> THEN TRUE
    ELSE IF Head(s) = Head(t) THEN StrLess(Tail(s), Tail(t))
    ELSE Ord(Head(s)) < Ord(Head(t))

\* sorted(S) for a set of strings
RECURSIVE Sorted(_)
Sorted(S) ==
    IF S = {} THEN <<>>
    ELSE LET m == CHOOSE x \in S : \A y \in S \ {x} : StrLess(x, y)
         IN  <<m>> \o Sorted(S \ {m})

Range(s) == {s[i] : i \in DOMAIN s}

\* the same without .upper()
NormalizeNoUpper(genes_input) ==
    LET tokens == Split(ReplaceComma(genes_input))
        kept == {i \in DOMAIN tokens : Strip(tokens[i]) # <<>>}
    IN  Sorted({Strip(tokens[i]) : i \in kept})

\* line 215: sorted(set(g.upper().strip() for g in ....split() if g.strip()))
Normalize(genes_input) ==
    LET tokens == Split(ReplaceComma(genes_input))
        kept == {i \in DOMAIN tokens : Strip(tokens[i]) # <<>>}
    IN  Sorted({Strip(Upper(tokens[i])) : i \in kept})

----------------------------------------------------------------------------
(* The STRING network endpoint *)

GeneA == <<"A">>
GeneB == <<"B">>
GeneC == <<"C">>

\* JSON objects of the answered array; a missing key is a missing field
Records ==
    { [preferredName_A |-> GeneA, preferredName_B |-> GeneB, score |-> 18],
      [preferredName_A |-> GeneB, preferredName_B |-> GeneA, score |-> 10],
      [preferredName_A |-> GeneB, preferredName_B |-> GeneC, score |-> 19],
      [preferredName_B |-> GeneB, score |-> 18],
      [preferredName_A |-> GeneA, score |-> 18],
      [preferredName_A |-> GeneA, preferredName_B |-> GeneB],
      [score |-> 10] }

RECURSIVE ArraysUpTo(_)
ArraysUpTo(n) ==
    IF n = 0 THEN {<<>>}
    ELSE LET shorter == ArraysUpTo(n - 1)
         IN  shorter \cup {Append(t, r) : t \in {s \in shorter : Len(s) = n - 1}, r \in Records}

\* response.json(): an array of objects, or a JSON value that is no array
Bodies ==
    [kind : {"array"}, items : ArraysUpTo(MaxBody)]
        \cup {[kind |-> "number", items |-> <<>>], [kind |-> "object", items |-> <<>>]}
\* "number": iterating it raises TypeError; "object": a non-empty object, whose
\* keys are strings without .get

\* what requests.get(url, params, timeout=30) can do
Responses ==
    [kind : {"http"}, status : {OK}, body : Bodies]
        \cup [kind : {"http"}, status : {404, 500}, body : {[kind |-> "array", items |-> <<>>]}]
        \cup [kind : {"transport"}, exc : {"ConnectionError", "Timeout"}]

Thresholds == {SliderMin, DefaultThreshold}

\* the loop with "a in genes or b in genes"
RECURSIVE FilterLoopAnyEndpoint(_, _, _, _)
FilterLoopAnyEndpoint(genes, score_threshold, data, edges) ==
    IF data = <<>> THEN [edges |-> edges, raised |-> "none"]
    ELSE LET interaction == Head(data)
             score == IF "score" \in DOMAIN interaction THEN interaction.score ELSE 0
         IN  IF score < score_threshold
             THEN FilterLoopAnyEndpoint(genes, score_threshold, Tail(data), edges)
             ELSE IF "preferredName_A" \notin DOMAIN interaction
                     \/ "preferredName_B" \notin DOMAIN interaction
             THEN [edges |-> edges, raised |-> "KeyError"]
             ELSE LET a == interaction.preferredName_A
                      b == interaction.preferredName_B
                  IN  IF a \in Range(genes) \/ b \in Range(genes)
                      THEN FilterLoopAnyEndpoint(genes, score_threshold, Tail(data),
                                                 Append(edges, <<a, b, score>>))
                      ELSE FilterLoopAnyEndpoint(genes, score_threshold, Tail(data), edges)

\* lines 63-72: the loop over the answered array
RECURSIVE FilterLoop(_, _, _, _)
FilterLoop(genes, score_threshold, data, edges) ==
    IF data = <<>> THEN [edges |-> edges, raised |-> "none"]
    ELSE LET interaction == Head(data)
             score == IF "score" \in DOMAIN interaction THEN interaction.score ELSE 0
         IN  IF score < score_threshold
             THEN FilterLoop(genes, score_threshold, Tail(data), edges)
             ELSE IF "preferredName_A" \notin DOMAIN interaction
                     \/ "preferredName_B" \notin DOMAIN interaction
             THEN [edges |-> edges, raised |-> "KeyError"]
             ELSE LET a == interaction.preferredName_A
                      b == interaction.preferredName_B
                  IN  IF a \in Range(genes) /\ b \in Range(genes)
                      THEN FilterLoop(genes, score_threshold, Tail(data),
                                      Append(edges, <<a, b, score>>))
                      ELSE FilterLoop(genes, score_threshold, Tail(data), edges)

\* The result of running a function body: the value returned or the exception
\* raised, the st.* elements it emitted, whether it sent a request, how the
\* call went (fetch) and what the request was answered with (answer).
Returned(value, msgs, sent, how, answer) ==
    [ret |-> value, raised |-> "none", msgs |-> msgs, requestSent |-> sent, fetch |-> how,
     answer |-> answer]

Raised(exc, msgs, sent, answer) ==
    [ret |-> <<>>, raised |-> exc, msgs |-> msgs, requestSent |-> sent, fetch |-> "raised",
     answer |-> answer]

\* the body without the except clause of lines 74-76
FetchAnsweredNoExcept(genes, score_threshold, response) ==
    IF response.kind = "transport"
    THEN Raised(response.exc, <<>>, TRUE, "transport")
    ELSE IF response.status # OK
    THEN Returned(<<>>, <<"error: STRING API error">>, TRUE, "ran", "status")
    ELSE IF response.body.kind = "number" THEN Raised("TypeError", <<>>, TRUE, "other")
    ELSE IF response.body.kind = "object" THEN Raised("AttributeError", <<>>, TRUE, "other")
    ELSE LET loop == FilterLoop(genes, score_threshold, response.body.items, <<>>)
         IN  IF loop.raised # "none" THEN Raised(loop.raised, <<>>, TRUE, "array")
             ELSE Returned(loop.edges, <<>>, TRUE, "ran", "array")

\* lines 55-76: the body of get_gene_interactions once the request is answered
FetchAnswered(genes, score_threshold, response) ==
    IF response.kind = "transport"
    THEN Returned(<<>>, <<"error: Network error">>, TRUE, "ran", "transport")
    ELSE IF response.status # OK
    THEN Returned(<<>>, <<"error: STRING API error">>, TRUE, "ran", "status")
    ELSE IF response.body.kind = "number" THEN Raised("TypeError", <<>>, TRUE, "other")
    ELSE IF response.body.kind = "object" THEN Raised("AttributeError", <<>>, TRUE, "other")
    ELSE LET loop == FilterLoop(genes, score_threshold, response.body.items, <<>>)
         IN  IF loop.raised # "none" THEN Raised(loop.raised, <<>>, TRUE, "array")
             ELSE Returned(loop.edges, <<>>, TRUE, "ran", "array")

\* the guard written "if not genes"
ShortCircuitEmptyOnly(genes) == Len(genes) < 1

\* lines 45-46: no request for fewer than two genes
ShortCircuit(genes) == Len(genes) < 2

----------------------------------------------------------------------------
(* st.cache_data(ttl=3600): the store is keyed by the arguments; an entry    *)
(* holds the returned value, the elements to replay, and when it was stored. *)

Key(genes, score_threshold) == <<genes, score_threshold>>

\* a ttl of one minute
CacheFreshMinute(entry, t) == t - entry.at < 60

CacheFresh(entry, t) == t - entry.at < TTL

CacheHit(store, key, t) == key \in DOMAIN store /\ CacheFresh(store[key], t)

\* a store that keeps no result of a failed request
CacheStoreSuccessOnly(store, key, result, t) ==
    IF result.raised = "none" /\ result.answer \notin {"transport", "status"}
    THEN [k \in DOMAIN store \cup {key} |->
            IF k = key THEN [value |-> result.ret, msgs |-> result.msgs, at |-> t]
            ELSE store[k]]
    ELSE store

\* only a normal return is stored; an exception leaves the store as it was
CacheStore(store, key, result, t) ==
    IF result.raised = "none"
    THEN [k \in DOMAIN store \cup {key} |->
            IF k = key THEN [value |-> result.ret, msgs |-> result.msgs, at |-> t]
            ELSE store[k]]
    ELSE store

\* entries past their ttl are dropped
CacheExpire(store, t) ==
    [k \in {j \in DOMAIN store : CacheFresh(store[j], t)} |-> store[k]]

\* a call through the decorator that finds a fresh entry
FetchHit(store, key) ==
    Returned(store[key].value, store[key].msgs, FALSE, "hit", "none")

\* a call that runs the body, given the answer a request would get
FetchMiss(genes, score_threshold, response) ==
    IF ShortCircuit(genes) THEN Returned(<<>>, <<>>, FALSE, "short", "none")
    ELSE FetchAnswered(genes, score_threshold, response)

\* every result get_gene_interactions(genes, score_threshold) can give now
FetchResults(genes, score_threshold) ==
    IF CacheHit(cache, Key(genes, score_threshold), now)
    THEN {FetchHit(cache, Key(genes, score_threshold))}
    ELSE IF ShortCircuit(genes)
    THEN {FetchMiss(genes, score_threshold, CHOOSE r \in Responses : TRUE)}
    ELSE {FetchMiss(genes, score_threshold, r) : r \in Responses}

CacheAfter(store, key, result, t) ==
    IF result.fetch = "hit" THEN store ELSE CacheStore(store, key, result, t)

----------------------------------------------------------------------------
(* The language model *)

\* the text of a reply, cut at every occurrence of the two highlighted words
Replies == {<<"de", "activates", " or ", "inhibits", ".">>}

LLMOutcomes == {"ok", "client_fails", "generate_fails", "text_fails"}

\* lines 192-197: the two str.replace calls
Highlight(reply) ==
    [i \in DOMAIN reply |->
        IF reply[i] = "activates"
        THEN "<span style='color:green;font-weight:bold'>activates</span>"
        ELSE IF reply[i] = "inhibits"
        THEN "<span style='color:red;font-weight:bold'>inhibits</span>"
        ELSE reply[i]]

NoSummary == [text |-> <<>>, called |-> FALSE, raised |-> "none", llm |-> "none"]

SummaryError(reason, called, llm) ==
    [text |-> <<"Could not generate summary: ", reason>>, called |-> called,
     raised |-> "none", llm |-> llm]

\* the function without the guard of lines 155-156
generate_ai_summary_unguarded(interactions, llm, reply) ==
    IF llm = "client_fails" THEN SummaryError("client error", FALSE, llm)
    ELSE IF llm = "generate_fails" THEN SummaryError("generation error", TRUE, llm)
    ELSE IF llm = "text_fails" THEN SummaryError("no text in response", TRUE, llm)
    ELSE [text |-> Highlight(reply), called |-> TRUE, raised |-> "none", llm |-> llm]

\* the function with response.text read after the try block
generate_ai_summary_text_outside(interactions, llm, reply) ==
    IF interactions = <<>>
    THEN [text |-> <<"No interactions to summarize.">>, called |-> FALSE,
          raised |-> "none", llm |-> "none"]
    ELSE IF llm = "client_fails" THEN SummaryError("client error", FALSE, llm)
    ELSE IF llm = "generate_fails" THEN SummaryError("generation error", TRUE, llm)
    ELSE IF llm = "text_fails"
    THEN [text |-> <<>>, called |-> TRUE, raised |-> "ValueError", llm |-> llm]
    ELSE [text |-> Highlight(reply), called |-> TRUE, raised |-> "none", llm |-> llm]

\* lines 154-201; called: whether generate_content was invoked
generate_ai_summary(interactions, llm, reply) ==
    IF interactions = <<>>
    THEN [text |-> <<"No interactions to summarize.">>, called |-> FALSE,
          raised |-> "none", llm |-> "none"]
    ELSE IF llm = "client_fails" THEN SummaryError("client error", FALSE, llm)
    ELSE IF llm = "generate_fails" THEN SummaryError("generation error", TRUE, llm)
    ELSE IF llm = "text_fails" THEN SummaryError("no text in response", TRUE, llm)
    ELSE [text |-> Highlight(reply), called |-> TRUE, raised |-> "none", llm |-> llm]

----------------------------------------------------------------------------
(* The temporary file of the rendered network *)

IOOutcomes == {"ok", "save_fails", "read_fails", "display_fails"}

\* lines 149-151 and 226-229: the file exists from NamedTemporaryFile(delete=False)
\* until os.remove, which is reached only when nothing before it raised
ShowNetwork(io) ==
    IF io = "save_fails" THEN [raised |-> "SaveError", removed |-> FALSE]
    ELSE IF io = "read_fails" THEN [raised |-> "OSError", removed |-> FALSE]
    ELSE IF io = "display_fails" THEN [raised |-> "DisplayError", removed |-> FALSE]
    ELSE [raised |-> "none", removed |-> TRUE]

----------------------------------------------------------------------------
(* What a run is remembered by *)

NoFetch == [ret |-> <<>>, raised |-> "none", msgs |-> <<>>, requestSent |-> FALSE,
            fetch |-> "none", answer |-> "none"]

RunRec(kind, text, genes, thr, f, raised, msgs, tmp, summary) ==
    [kind |-> kind, at |-> now, text |-> text, genes |-> genes, thr |-> thr,
     interactions |-> f.ret, fetch |-> f.fetch, answer |-> f.answer,
     requestSent |-> f.requestSent,
     raised |-> raised, msgs |-> msgs, tmp |-> tmp,
     summary |-> summary.text, llm |-> summary.llm, llmCalled |-> summary.called]

\* history of the calls that ran the body and returned, kept for one window
Remember(hist, key, result, t) ==
    IF result.fetch \in {"hit", "raised", "none"} THEN hist
    ELSE [k \in DOMAIN hist \cup {key} |->
            IF k = key THEN [ret |-> result.ret, answer |-> result.answer, at |-> t]
            ELSE hist[k]]

Forget(hist, t) == [k \in {j \in DOMAIN hist : t - hist[j].at < TTL} |-> hist[k]]

Init ==
    /\ now = 0
    /\ cache = <<>>
    /\ tmpfiles = 0
    /\ computed = <<>>
    /\ run = RunRec("start", <<>>, <<>>, DefaultThreshold, NoFetch, "none", <<>>, "none",
                    NoSummary)

\* lines 226-264: the branch taken when interactions were found
ShowResults(genes_input, genes, score_threshold, f, found) ==
    \E io \in IOOutcomes :
      LET net == ShowNetwork(io)
      IN  IF net.raised # "none"
          THEN /\ tmpfiles < MaxTmp
               /\ tmpfiles' = (IF net.removed THEN tmpfiles ELSE tmpfiles + 1)
               /\ run' = RunRec("generate", genes_input, genes, score_threshold, f,
                                net.raised, found,
                                IF net.removed THEN "removed" ELSE "left", NoSummary)
          ELSE \E llm \in LLMOutcomes, reply \in Replies :
                 LET s == generate_ai_summary(f.ret, llm, reply)
                     table == found \o <<"html: network", "dataframe: table">>
                 IN  /\ tmpfiles' = (IF net.removed THEN tmpfiles ELSE tmpfiles + 1)
                     /\ run' = RunRec("generate", genes_input, genes, score_threshold, f,
                                      s.raised,
                                      IF s.raised # "none" THEN table
                                      ELSE table \o <<"markdown: summary",
                                                      "download_button: csv">>,
                                      IF net.removed THEN "removed" ELSE "left", s)

\* lines 211-264: one click on "Generate Pathway"
Generate(genes_input, score_threshold) ==
    /\ now' = now
    /\ IF Strip(genes_input) = <<>>
       THEN /\ run' = RunRec("generate", genes_input, <<>>, score_threshold, NoFetch, "none",
                             <<"error: Please enter gene symbols.">>, "none", NoSummary)
            /\ UNCHANGED <<cache, tmpfiles, computed>>
       ELSE LET genes == Normalize(genes_input)
                key == Key(genes, score_threshold)
            IN  IF Len(genes) < 2
                THEN /\ run' = RunRec("generate", genes_input, genes, score_threshold, NoFetch,
                                      "none", <<"warning: Enter at least two genes.">>,
                                      "none", NoSummary)
                     /\ UNCHANGED <<cache, tmpfiles, computed>>
                ELSE \E f \in FetchResults(genes, score_threshold) :
                       /\ cache' = CacheAfter(cache, key, f, now)
                       /\ computed' = Remember(computed, key, f, now)
                       /\ LET shown == <<"success: Processing genes">> \o f.msgs
                              found == Append(shown, "write: Found interactions")
                          IN  IF f.raised # "none"
                              THEN /\ run' = RunRec("generate", genes_input, genes,
                                                    score_threshold, f, f.raised, shown,
                                                    "none", NoSummary)
                                   /\ tmpfiles' = tmpfiles
                              ELSE IF f.ret = <<>>
                              THEN /\ run' = RunRec("generate", genes_input, genes,
                                                    score_threshold, f, "none",
                                                    Append(found, "info: No interactions found."),
                                                    "none", NoSummary)
                                   /\ tmpfiles' = tmpfiles
                              ELSE ShowResults(genes_input, genes, score_threshold, f, found)

\* time passes; entries older than the ttl are gone
Tick ==
    /\ now < MaxTime
    /\ now' = now + TickStep
    /\ cache' = CacheExpire(cache, now')
    /\ computed' = Forget(computed, now')
    /\ UNCHANGED <<tmpfiles, run>>

\* the three kinds of input the pipeline tells apart: blank, one gene, two genes
PipelineTexts == {<<" ">>, <<"a">>, <<"b", ",", "A">>}

Click == \E genes_input \in PipelineTexts, score_threshold \in Thresholds :
            Generate(genes_input, score_threshold)

Next == Click \/ Tick

Spec == Init /\ [][Next]_vars

----------------------------------------------------------------------------
(* The handler on every text: the text area holds any text when the button  *)
(* is pressed.                                                              *)

InitTyped ==
    /\ now = 0
    /\ cache = <<>>
    /\ tmpfiles = 0
    /\ computed = <<>>
    /\ \E genes_input \in Texts, score_threshold \in Thresholds :
         run = RunRec("typed", genes_input, <<>>, score_threshold, NoFetch, "none", <<>>,
                      "none", NoSummary)

ClickTyped == Generate(run.text, run.thr)

NextTyped == ClickTyped

SpecTyped == InitTyped /\ [][NextTyped]_vars

----------------------------------------------------------------------------
(* The two functions called on their own, on any argument                   *)

GeneLists == {<<>>, <<GeneA>>, <<GeneA, GeneB>>}

InteractionLists == {<<>>, <<<<GeneA, GeneB, 18>>>>}

CallFetch ==
    \E genes \in GeneLists, score_threshold \in Thresholds :
      \E f \in FetchResults(genes, score_threshold) :
        /\ cache' = CacheAfter(cache, Key(genes, score_threshold), f, now)
        /\ computed' = Remember(computed, Key(genes, score_threshold), f, now)
        /\ run' = RunRec("call", <<>>, genes, score_threshold, f, f.raised, f.msgs, "none",
                         NoSummary)
        /\ UNCHANGED <<now, tmpfiles>>

CallSummary ==
    \E interactions \in InteractionLists, llm \in LLMOutcomes, reply \in Replies :
      LET s == generate_ai_summary(interactions, llm, reply)
      IN  /\ run' = RunRec("summary", <<>>, <<>>, DefaultThreshold,
                           [NoFetch EXCEPT !.ret = interactions], s.raised, <<>>, "none", s)
          /\ UNCHANGED <<now, cache, tmpfiles, computed>>

NextCalls == CallFetch \/ CallSummary

SpecCalls == Init /\ [][NextCalls]_vars

TypeOK == now \in 0..(MaxTime + TickStep) /\ tmpfiles \in 0..MaxTmp

----------------------------------------------------------------------------
(* Properties *)

Shown(m) == m \in Range(run.msgs)

FetchCalled == run.fetch # "none"

\* nothing past the input check ran: no fetch, no network file, no summary
NothingInvoked ==
    /\ run.fetch = "none" /\ ~run.requestSent
    /\ run.tmp = "none"
    /\ run.llm = "none" /\ ~run.llmCalled /\ run.summary = <<>>

EGFR == <<"E", "G", "F", "R">>
KRAS == <<"K", "R", "A", "S">>
BRAF == <<"B", "R", "A", "F">>
TP53 == <<"T", "P", "5", "3">>

ExampleResponse ==
    << [preferredName_A |-> EGFR, preferredName_B |-> KRAS, score |-> 18],
       [preferredName_A |-> KRAS, preferredName_B |-> BRAF, score |-> 10],
       [preferredName_A |-> BRAF, preferredName_B |-> TP53, score |-> 19] >>

\* C1: every triple returned by get_gene_interactions has a score at or above
\* the threshold and both names in the gene list given, whatever the request
\* was answered with; the answer (EGFR,KRAS,0.9), (KRAS,BRAF,0.5),
\* (BRAF,TP53,0.95) for EGFR, KRAS, BRAF at 0.7 gives exactly (EGFR,KRAS,0.9).
C1_FilterSound ==
    /\ FetchCalled =>
         \A i \in DOMAIN run.interactions :
            /\ run.interactions[i][3] >= run.thr
            /\ run.interactions[i][1] \in Range(run.genes)
            /\ run.interactions[i][2] \in Range(run.genes)
    /\ FilterLoop(<<EGFR, KRAS, BRAF>>, DefaultThreshold, ExampleResponse, <<>>)
         = [edges |-> << <<EGFR, KRAS, 18>> >>, raised |-> "none"]

C1_Witness ==
    /\ run.kind = "call" /\ run.answer = "array" /\ run.thr = DefaultThreshold
    /\ run.genes = <<GeneA, GeneB>>
    /\ run.interactions = << <<GeneA, GeneB, 18>> >>

\* C2: a call of get_gene_interactions with no gene or one gene returns the
\* empty list and sends no request, whatever the threshold and the cache hold.
C2_ShortCircuit ==
    (run.kind = "call" /\ Len(run.genes) < 2) =>
        /\ run.interactions = <<>>
        /\ ~run.requestSent
        /\ run.answer = "none"
        /\ run.raised = "none"

C2_Witness ==
    /\ run.kind = "call" /\ Len(run.genes) = 1 /\ run.fetch = "short"
    /\ Key(<<GeneA, GeneB>>, run.thr) \in DOMAIN cache

\* C3: once a call for a key has run the body and returned, every later call
\* for the same key less than one hour after it sends no request and returns
\* the same list; so a request for that key is sent again only after the hour.
C3_CacheWindow ==
    [][ (now' = now /\ run'.fetch # "none") =>
          LET key == Key(run'.genes, run'.thr)
          IN  (key \in DOMAIN computed /\ now' - computed[key].at < TTL) =>
                /\ ~run'.requestSent
                /\ run'.interactions = computed[key].ret ]_vars

C3_Witness ==
    /\ run.kind = "generate" /\ run.fetch = "hit" /\ run.interactions # <<>>
    /\ Key(run.genes, run.thr) \in DOMAIN computed
    /\ computed[Key(run.genes, run.thr)].at < run.at
    /\ computed[Key(run.genes, run.thr)].ret = run.interactions

\* C4: when the request is answered with a status other than 200 or fails in
\* transport, the fetch shows an error and returns the empty list without
\* raising, and the run goes on as one with no interactions: the notice is
\* shown, no network is rendered, no temporary file is made and the language
\* model is not called.
C4_UpstreamFailure ==
    (run.kind = "generate" /\ run.answer \in {"transport", "status"}) =>
        /\ run.raised = "none"
        /\ run.interactions = <<>>
        /\ Shown("error: Network error") \/ Shown("error: STRING API error")
        /\ Shown("info: No interactions found.")
        /\ ~Shown("html: network")
        /\ run.tmp = "none"
        /\ run.llm = "none" /\ ~run.llmCalled

C4_Witness ==
    /\ run.kind = "generate" /\ run.answer = "transport"
    /\ Shown("error: Network error") /\ Shown("info: No interactions found.")

\* C5: no temporary file made by a run is left once the run is over, also
\* when saving, reading back or displaying the network fails.
C5_NoLeftoverFile == tmpfiles = 0

\* C6: for a non-empty interaction list generate_ai_summary does not raise;
\* when making the client, the generation call or reading the text fails, it
\* returns "Could not generate summary: <reason>", and the run shows it and
\* offers the CSV download.
C6_SummaryNeverRaises ==
    /\ (run.kind = "generate" /\ run.llm # "none") => run.raised = "none"
    /\ (run.kind = "generate" /\ run.llm \in {"client_fails", "generate_fails", "text_fails"}) =>
          /\ Len(run.summary) = 2
          /\ run.summary[1] = "Could not generate summary: "
          /\ Shown("markdown: summary")
          /\ Shown("download_button: csv")

C6_Witness ==
    /\ run.kind = "generate" /\ run.llm = "text_fails"
    /\ run.summary = <<"Could not generate summary: ", "no text in response">>
    /\ Shown("download_button: csv")

\* C7: no exception leaves a run of the handler, whatever the input and
\* whatever the services do.
C7_NoException == run.raised = "none"

WellFormed(genes) ==
    /\ \A i \in DOMAIN genes : genes[i] # <<>> /\ Upper(genes[i]) = genes[i]
    /\ \A i, j \in DOMAIN genes : i < j => StrLess(genes[i], genes[j])

TooFew == Shown("warning: Enter at least two genes.") /\ NothingInvoked

\* C8 as stated: the gene list of any text has no duplicate, no empty token,
\* only uppercase entries and is sorted; and when it has fewer than two
\* genes the warning is shown and nothing further is invoked.
C8_AsStated ==
    run.kind = "generate" =>
        /\ WellFormed(Normalize(run.text))
        /\ Len(Normalize(run.text)) < 2 => TooFew

\* C8: the gene list made from any non-blank text has no duplicate, no empty
\* token, only uppercase entries and is sorted (strictly ascending); a blank
\* text gets the error "Please enter gene symbols.", a non-blank text with
\* fewer than two distinct genes gets the warning, and in both cases nothing
\* further is invoked.
C8_Normalized ==
    run.kind = "generate" =>
        /\ WellFormed(run.genes)
        /\ Strip(run.text) = <<>> =>
              Shown("error: Please enter gene symbols.") /\ NothingInvoked
        /\ (Strip(run.text) # <<>> /\ Len(run.genes) < 2) => TooFew
        /\ Len(run.genes) >= 2 => FetchCalled

C8_Witness ==
    /\ run.kind = "generate" /\ run.text = <<"a", ",", "A">>
    /\ run.genes = <<GeneA>>
    /\ TooFew

\* C9: generate_ai_summary on the empty list returns exactly
\* "No interactions to summarize." and does not call the language model.
C9_EmptySummary ==
    (run.kind = "summary" /\ run.interactions = <<>>) =>
        /\ run.summary = <<"No interactions to summarize.">>
        /\ ~run.llmCalled
        /\ run.raised = "none"

C9_Witness ==
    /\ run.kind = "summary" /\ run.interactions = <<>>
    /\ run.summary = <<"No interactions to summarize.">>

\* C10: a fetch that failed with a status other than 200 or in transport is
\* kept like any other: a later call for the same key less than one hour
\* after it sends no request and still returns the empty list.
C10_FailureMemoized ==
    [][ (now' = now /\ run'.fetch # "none") =>
          LET key == Key(run'.genes, run'.thr)
          IN  (/\ key \in DOMAIN computed
               /\ computed[key].answer \in {"transport", "status"}
               /\ now' - computed[key].at < TTL) =>
                /\ run'.fetch = "hit"
                /\ run'.answer = "none" /\ ~run'.requestSent
                /\ run'.interactions = <<>> ]_vars

C10_Witness ==
    /\ run.kind = "generate" /\ run.fetch = "hit" /\ run.interactions = <<>>
    /\ Key(run.genes, run.thr) \in DOMAIN computed
    /\ computed[Key(run.genes, run.thr)].answer \in {"transport", "status"}
    /\ computed[Key(run.genes, run.thr)].at < run.at
    /\ Shown("info: No interactions found.")

====
